---- MODULE Spec2Model ----
(***************************************************************************)
(* State-machine model of the gocarplay USB link (usblink/usblink.go) and  *)
(* of the wire codec it uses (protocol/message.go).                        *)
(*                                                                         *)
(* Bytes are numbers 0..255, byte strings are sequences of bytes, and a    *)
(* uint32 is kept as its four little-endian bytes (a "word"), because the  *)
(* complement of a type code does not fit a 32-bit signed integer.         *)
(***************************************************************************)
EXTENDS Integers, Sequences, FiniteSets, TLC

\* ------------------------------------------------------------------ bounds
\* capacity of the outbound queue (1024 in the source, usblink.go:453)
QueueCap == 1
\* capacity of the Sender's batch buffer (512*9600 in the source, usblink.go:86)
BuffCap == 64
\* lifecycle calls (Start / Stop) the application thread makes
MaxCalls == 3
\* messages the producer enqueues and packets the device sends while the
\* lifecycle is explored
LifeMsgs == 2
LifePkts == 1
\* messages the producer enqueues while the Sender is explored
MaxMsgs == 3
\* packets the device sends while the Receiver is explored
MaxPackets == 2

\* ------------------------------------------------------------- byte helpers
Byte == 0..255

Min(a, b) == IF a < b THEN a ELSE b

\* the first n elements of s, and s without them
Take(s, n) == SubSeq(s, 1, Min(n, Len(s)))
Drop(s, n) == SubSeq(s, Min(n, Len(s)) + 1, Len(s))

RECURSIVE Concat(_)
Concat(ss) == IF ss = <<>> THEN <<>> ELSE Head(ss) \o Concat(Tail(ss))

Rep(b, n) == [i \in 1..n |-> b]

\* struc "uint32,little" / binary.LittleEndian.PutUint32 for 0 <= n < 2^31
LE32(n) == << n % 256, (n \div 256) % 256, (n \div 65536) % 256, (n \div 16777216) % 256 >>

\* binary.LittleEndian.Uint32 as a word: the four bytes at offset off (0-based)
WordAt(data, off) == SubSeq(data, off + 1, off + 4)

\* the value of a word that is below 2^31
U32(w) == w[1] + 256 * w[2] + 65536 * w[3] + 16777216 * w[4]

\* (x ^ 0xffffffff) & 0xffffffff on a word
Xor32(w) == [i \in 1..4 |-> 255 - w[i]]

\* ------------------------------------------------------------------- codec
magicNumber == << 170, 85, 170, 85 >>

HeartbeatPacketType == 170
VideoDataPacketType == 6
AudioDataPacketType == 7
PluggedPacketType == 2
TouchPacketType == 5
SendFilePacketType == 153

\* messageTypes: the registered message variants and their type codes
messageTypes ==
  [ v \in { "SendFile", "Open", "Heartbeat", "ManufacturerInfo", "CarPlay",
            "SoftwareVersion", "BluetoothAddress", "BluetoothPIN", "Plugged",
            "Unplugged", "VideoData", "AudioData", "Touch",
            "BluetoothDeviceName", "WifiDeviceName", "BluetoothPairedList" } |->
      CASE v = "SendFile" -> 153
        [] v = "Open" -> 1
        [] v = "Heartbeat" -> 170
        [] v = "ManufacturerInfo" -> 20
        [] v = "CarPlay" -> 8
        [] v = "SoftwareVersion" -> 204
        [] v = "BluetoothAddress" -> 10
        [] v = "BluetoothPIN" -> 12
        [] v = "Plugged" -> 2
        [] v = "Unplugged" -> 4
        [] v = "VideoData" -> 6
        [] v = "AudioData" -> 7
        [] v = "Touch" -> 5
        [] v = "BluetoothDeviceName" -> 13
        [] v = "WifiDeviceName" -> 14
        [] v = "BluetoothPairedList" -> 18 ]

\* A message handed to the link: its variant and its payload as struc packs it.
Msg(v, payload) == [variant |-> v, payload |-> payload]

\* Values handed to Marshal that are no pointer to a struct: nil, a number, a
\* message struct passed by value.  (A pointer to a struct is a Msg.)
NotStructPointers == {"nil", "int", "struct by value"}
Val(kind) == [variant |-> kind, payload |-> <<>>]

\* packPayload: the packed fields of the payload (nothing for a field-less
\* one); reflect.ValueOf(payload).Elem() panics on what is no pointer
packPayload(msg) ==
  IF msg.variant \in NotStructPointers
    THEN [buf |-> <<>>, err |-> "panic"]
    ELSE [buf |-> msg.payload, err |-> "nil"]

\* a header whose length field counts the 16 header bytes too
packHeader_lengthWithHeader(msg, data) ==
  IF msg.variant \notin DOMAIN messageTypes
    THEN [buf |-> <<>>, err |-> "No message found"]
    ELSE [buf |-> magicNumber \o LE32(Len(data) + 16) \o LE32(messageTypes[msg.variant])
                    \o Xor32(LE32(messageTypes[msg.variant])) \o data,
          err |-> "nil"]

\* packHeader: header (magic, length, type, type_n) followed by the payload
packHeader(msg, data) ==
  IF msg.variant \notin DOMAIN messageTypes
    THEN [buf |-> <<>>, err |-> "No message found"]
    ELSE LET msgType == LE32(messageTypes[msg.variant])
             msgTypeN == Xor32(msgType)
         IN  [buf |-> magicNumber \o LE32(Len(data)) \o msgType \o msgTypeN \o data,
              err |-> "nil"]

Marshal(msg) ==
  IF packPayload(msg).err # "nil"
    THEN [buf |-> <<>>, err |-> packPayload(msg).err]
    ELSE packHeader(msg, packPayload(msg).buf)

ZeroHeader == [Magic |-> LE32(0), Length |-> LE32(0), Type |-> LE32(0), TypeN |-> LE32(0)]

\* a decoder that does not test the complement
TypeCheck_skipped(hdr) == TRUE

\* the complement test of UnmarshalHeader
TypeCheck(hdr) == Xor32(hdr.Type) = hdr.TypeN

UnmarshalHeader(data) ==
  IF Len(data) # 16
    THEN [hdr |-> ZeroHeader, err |-> "wrong header size (!=16)"]
    ELSE LET hdr == [Magic |-> WordAt(data, 0), Length |-> WordAt(data, 4),
                     Type |-> WordAt(data, 8), TypeN |-> WordAt(data, 12)]
         IN  IF hdr.Magic # magicNumber
               THEN [hdr |-> ZeroHeader, err |-> "Invalid magic number"]
               ELSE IF ~TypeCheck(hdr)
                 THEN [hdr |-> ZeroHeader, err |-> "Invalid type"]
                 ELSE [hdr |-> hdr, err |-> "nil"]


\* a field read most significant byte first
UnpackU32_bigEndian(data, off) ==
  IF Len(data) >= off + 4 THEN << data[off + 4], data[off + 3], data[off + 2], data[off + 1] >>
                          ELSE LE32(0)

\* struc.Unpack of one `struc:"uint32,little"` field at offset off: the field
\* stays zero when the input ends before it
UnpackU32(data, off) == IF Len(data) >= off + 4 THEN WordAt(data, off) ELSE LE32(0)

\* Unmarshal(data, &hdr) with hdr a zero Header: the header as Unmarshal
\* leaves it, and the error
Unmarshal_Header(data) ==
  LET hdr == IF Len(data) > 0
               THEN [Magic |-> UnpackU32(data, 0), Length |-> UnpackU32(data, 4),
                     Type |-> UnpackU32(data, 8), TypeN |-> UnpackU32(data, 12)]
               ELSE ZeroHeader
  IN  IF Len(data) > 0 /\ Len(data) < 16 THEN [hdr |-> hdr, err |-> "unexpected EOF"]
      ELSE IF hdr.Magic # magicNumber THEN [hdr |-> hdr, err |-> "Invalid magic number"]
      ELSE IF Xor32(hdr.Type) # hdr.TypeN THEN [hdr |-> hdr, err |-> "Invalid type"]
      ELSE [hdr |-> hdr, err |-> "nil"]

\* int32(binary.LittleEndian.Uint32(..)) of a word
I32(w) == w[1] + 256 * w[2] + 65536 * w[3] + 16777216 * (IF w[4] < 128 THEN w[4] ELSE w[4] - 256)

ZeroVideoData == [Width |-> 0, Height |-> 0, Flags |-> 0, Length |-> 0, Unknown2 |-> 0, Data |-> <<>>]

\* a decoder that only requires the payload to hold the announced bytes
UnmarhalVideoData_sizeAtLeast(data) ==
  IF Len(data) < 20
    THEN [video |-> ZeroVideoData, err |-> "wrong videodata size (<20)"]
    ELSE LET length == I32(WordAt(data, 12))
         IN  IF Len(data) < 20 + length
               THEN [video |-> ZeroVideoData, err |-> "wrong videodata size (len(data) != 20+length)"]
               ELSE [video |-> [Width |-> I32(WordAt(data, 0)), Height |-> I32(WordAt(data, 4)),
                                Flags |-> I32(WordAt(data, 8)), Length |-> length,
                                Unknown2 |-> I32(WordAt(data, 16)), Data |-> Drop(data, 20)],
                     err |-> "nil"]

UnmarhalVideoData(data) ==
  IF Len(data) < 20
    THEN [video |-> ZeroVideoData, err |-> "wrong videodata size (<20)"]
    ELSE LET length == I32(WordAt(data, 12))
         IN  IF Len(data) # 20 + length
               THEN [video |-> ZeroVideoData, err |-> "wrong videodata size (len(data) != 20+length)"]
               ELSE [video |-> [Width |-> I32(WordAt(data, 0)), Height |-> I32(WordAt(data, 4)),
                                Flags |-> I32(WordAt(data, 8)), Length |-> length,
                                Unknown2 |-> I32(WordAt(data, 16)), Data |-> Drop(data, 20)],
                     err |-> "nil"]

ZeroAudioData == [DecodeType |-> LE32(0), Volume |-> LE32(0), AudioType |-> 0,
                  Command |-> 0, VolumeDuration |-> 0, Data |-> <<>>]

\* a decoder that treats every tail as audio samples
UnmarshalAudioData_tailIsData(data) ==
  IF Len(data) < 12
    THEN [audio |-> ZeroAudioData, err |-> "wrong audiodata size (<12)"]
    ELSE [audio |-> [ZeroAudioData EXCEPT !.DecodeType = WordAt(data, 0),
                                          !.Volume = WordAt(data, 4),
                                          !.AudioType = I32(WordAt(data, 8)),
                                          !.Data = Drop(data, 12)],
          err |-> "nil"]

\* DecodeType and Volume are kept as the words they are read from
UnmarshalAudioData(data) ==
  IF Len(data) < 12
    THEN [audio |-> ZeroAudioData, err |-> "wrong audiodata size (<12)"]
    ELSE LET prefix == [ZeroAudioData EXCEPT !.DecodeType = WordAt(data, 0),
                                             !.Volume = WordAt(data, 4),
                                             !.AudioType = I32(WordAt(data, 8))]
         IN  CASE Len(data) - 12 = 1 -> [audio |-> [prefix EXCEPT !.Command = data[13]], err |-> "nil"]
               [] Len(data) - 12 = 4 -> [audio |-> [prefix EXCEPT !.VolumeDuration = I32(WordAt(data, 12))], err |-> "nil"]
               [] OTHER -> [audio |-> [prefix EXCEPT !.Data = Drop(data, 12)], err |-> "nil"]

\* ------------------------------------------------------------------- state
VARIABLES
  \* the application thread that drives the lifecycle
  ctlPc, nCalls, lastCall,
  \* USBLink fields
  exitChan, outData, queue, waitGroup, usbCtx, cbs,
  \* loop (Supervisor)
  supPc, timeAfter, product, intf, endpointWg,
  \* outEndpointProcess (Sender)
  \* (initPc: how many of its messages the application's on_ready_send,
  \* running on the Sender, has enqueued)
  sndPc, buff, remaining, initPc,
  \* inEndpointProcess (Receiver)
  \* (delivered: the media packets handed to on_video / on_audio on this
  \* stream, in the order of the calls)
  rcvPc, stream, br, rxHdr, delivered,
  \* the producer thread calling SendMessage: where it is, the message it is
  \* blocked with, and what it has enqueued so far
  prodPc, pending, enq,
  \* the USB side: matching devices on the bus, chunks waiting on the IN
  \* endpoint, packets sent so far, and whether transfers fail
  bus, inWire, nPkts, epFault,
  \* what the last step did to the outside: the callback it invoked, the OUT
  \* writes it made and the framed packet it finished receiving
  cbNow, outNow, rxNow,
  \* history: whether discovery has come up empty since Start, on_ready_send
  \* calls of the current attachment, the successful OUT writes of messages,
  \* the current batch window, whether a window has ended on its 300 ms
  \* deadline, how often the Sender has found the queue empty inside a
  \* window, a bit the Sender flips each time its heartbeat timer expires,
  \* and the cause of a log.Fatal or panic (the process is gone once it is
  \* set)
  missed, readyCount, sent, win, timedOut, emptyPolls, hbTick, fatal,
  \* a call of a function of the protocol package on its own: where it is
  \* ("idle" when there is none), its argument and what it returned
  codecPc, codecArg, codecRet

appVars == << ctlPc, nCalls, lastCall >>
linkVars == << exitChan, outData, queue, waitGroup, usbCtx, cbs >>
supVars == << supPc, timeAfter, product, intf, endpointWg >>
sndVars == << sndPc, buff, remaining, initPc >>
rcvVars == << rcvPc, stream, br, rxHdr, delivered >>
envVars == << bus, inWire, nPkts, epFault >>
obsVars == << cbNow, outNow, rxNow >>
histVars == << missed, readyCount, sent, win, timedOut, emptyPolls, hbTick >>
prodVars == << prodPc, pending, enq >>
codecVars == << codecPc, codecArg, codecRet >>
progVars == << appVars, linkVars, supVars, sndVars, rcvVars, prodVars, envVars, obsVars, histVars, fatal >>
vars == << progVars, codecVars >>

NoCallbacks == [onReadySend |-> 0, onVideo |-> 0, onAudio |-> 0, onData |-> 0, onError |-> 0]

\* The callback sets the application may hand to Start: generation g of the
\* application's functions, with onData or onError left nil in some.
CallbackSets(g) ==
  { [onReadySend |-> g, onVideo |-> g, onAudio |-> g, onData |-> d, onError |-> e] :
      d \in {0, g}, e \in {0, g} }

NoCall == [cb |-> "none", arg |-> <<>>]
Call(name, arg) == [cb |-> name, arg |-> arg]

NoWindow == [deq |-> <<>>, msgs |-> 0, writes |-> <<>>, closed |-> TRUE]

Alive == fatal = "none"
Quiet == cbNow' = NoCall /\ outNow' = <<>> /\ rxNow' = <<>>

\* no call of a protocol function is under way
NoCodecCall == codecPc = "idle" /\ codecArg = <<>> /\ codecRet = <<>>

\* the link as constructed: nothing started, no goroutine, no device attached
ProgInit ==
  /\ ctlPc = "idle" /\ nCalls = 0 /\ lastCall = "none"
  /\ exitChan = "nil" /\ outData = "nil" /\ queue = <<>> /\ waitGroup = 0
  /\ usbCtx = "nil" /\ cbs = NoCallbacks
  /\ supPc = "idle" /\ timeAfter = 0 /\ product = "nil" /\ intf = "none" /\ endpointWg = 0
  /\ sndPc = "idle" /\ buff = <<>> /\ remaining = 0 /\ initPc = 0
  /\ rcvPc = "idle" /\ stream = "none" /\ br = <<>> /\ rxHdr = ZeroHeader /\ delivered = <<>>
  /\ prodPc = "idle" /\ pending = <<>> /\ enq = <<>>
  /\ bus \in 0..1 /\ inWire = <<>> /\ nPkts = 0 /\ epFault = FALSE
  /\ cbNow = NoCall /\ outNow = <<>> /\ rxNow = <<>>
  /\ missed = FALSE /\ readyCount = 0 /\ sent = <<>> /\ win = NoWindow
  /\ timedOut = FALSE /\ emptyPolls = 0 /\ hbTick = FALSE
  /\ fatal = "none"

Init == ProgInit /\ NoCodecCall

\* --------------------------------------------------------------- lifecycle
\* Start and Stop without their test of l.exitChan
IsRunning_unchecked == FALSE

\* l.exitChan != nil: the link has been started and not yet stopped
IsRunning == exitChan # "nil"

Start(c) ==
  /\ Alive /\ ctlPc = "idle"
  /\ nCalls' = nCalls + 1
  /\ ctlPc' = "idle"
  /\ Quiet
  /\ lastCall' = "Start"
  /\ IF IsRunning
       THEN UNCHANGED << linkVars, supVars, missed >>
       ELSE /\ cbs' = c
            /\ usbCtx' = "open"
            /\ exitChan' = "open"
            /\ outData' = "open" /\ queue' = <<>>
            /\ waitGroup' = waitGroup + 1
            /\ supPc' = "select" /\ timeAfter' = 0 /\ product' = "nil" /\ intf' = "none"
            /\ missed' = FALSE
            /\ UNCHANGED endpointWg
  /\ UNCHANGED << sndVars, rcvVars, prodVars, envVars, readyCount, sent, win, timedOut,
                  emptyPolls, hbTick, fatal >>
  /\ UNCHANGED codecVars

\* Stop up to the blocking Wait: the check and close(l.exitChan)
Stop ==
  /\ Alive /\ ctlPc = "idle"
  /\ nCalls' = nCalls + 1
  /\ Quiet
  /\ lastCall' = "Stop"
  /\ IF ~IsRunning
       THEN UNCHANGED << ctlPc, exitChan >>
       ELSE /\ exitChan' = "closed"
            /\ ctlPc' = "Stop_Wait"
  /\ UNCHANGED << outData, queue, waitGroup, usbCtx, cbs, supVars, sndVars, rcvVars,
                  prodVars, envVars, histVars, fatal >>
  /\ UNCHANGED codecVars

\* a Wait that returns while tasks are still counted
Wait_returns_at_once(wg) == TRUE

\* WaitGroup.Wait returns once the counter is zero
Wait(wg) == wg = 0

\* l.waitGroup.Wait() returns; l.exitChan = nil
Stop_Wait ==
  /\ Alive /\ ctlPc = "Stop_Wait"
  /\ Wait(waitGroup)
  /\ exitChan' = "nil"
  /\ ctlPc' = "Stop_close"
  /\ Quiet
  /\ UNCHANGED << nCalls, lastCall, outData, queue, waitGroup, usbCtx, cbs, supVars,
                  sndVars, rcvVars, prodVars, envVars, histVars, fatal >>
  /\ UNCHANGED codecVars

\* close(l.outData): a producer blocked in a send on it panics
Stop_close ==
  /\ Alive /\ ctlPc = "Stop_close"
  /\ outData' = "closed"
  /\ prodPc' = IF prodPc = "blockedFull" THEN "panic" ELSE prodPc
  /\ ctlPc' = "Stop_clear"
  /\ Quiet
  /\ UNCHANGED << nCalls, lastCall, exitChan, queue, waitGroup, usbCtx, cbs, supVars,
                  sndVars, rcvVars, pending, enq, envVars, histVars, fatal >>
  /\ UNCHANGED codecVars

\* l.outData = nil, the callbacks are cleared, l.usbCtx.Close(); Stop returns
Stop_clear ==
  /\ Alive /\ ctlPc = "Stop_clear"
  /\ outData' = "nil" /\ queue' = <<>>
  /\ cbs' = NoCallbacks
  /\ usbCtx' = "closed"
  /\ ctlPc' = "idle"
  /\ Quiet
  /\ UNCHANGED << nCalls, lastCall, exitChan, waitGroup, supVars, sndVars, rcvVars,
                  prodVars, envVars, histVars, fatal >>
  /\ UNCHANGED codecVars


\* ------------------------------------------------------------ loop (Supervisor)
\* l.usbCtx.OpenDevices: the handles of the matching devices, or an error
OpenDevices(b) ==
  IF b < 0 THEN [devs |-> <<>>, err |-> "libusb"]
           ELSE [devs |-> [i \in 1..b |-> i], err |-> "nil"]

\* a discovery that never reports a device
usbConnect_none(opened) == [device |-> 0, err |-> opened.err, closed |-> opened.devs]

\* usbConnect: the first opened device (0 for none); the others are closed
usbConnect(opened) ==
  IF opened.err # "nil"
    THEN [device |-> 0, err |-> opened.err, closed |-> <<>>]
    ELSE IF Len(opened.devs) > 0
      THEN [device |-> opened.devs[1], err |-> "nil", closed |-> Tail(opened.devs)]
      ELSE [device |-> 0, err |-> "nil", closed |-> <<>>]

\* select { case <-time.After(timeAfter) }, then usbConnect
loop_timer ==
  /\ Alive /\ supPc = "select"
  /\ timeAfter' = 2
  /\ LET r == usbConnect(OpenDevices(bus))
     IN  IF r.err # "nil" \/ r.device = 0
           THEN /\ missed' = TRUE
                /\ UNCHANGED << supPc, product, readyCount, epFault >>
           ELSE /\ product' = "open"
                /\ supPc' = "DefaultInterface"
                /\ readyCount' = 0
                /\ epFault' = FALSE
                /\ UNCHANGED missed
  /\ Quiet
  /\ UNCHANGED << appVars, linkVars, intf, endpointWg, sndVars, rcvVars, prodVars,
                  bus, inWire, nPkts, sent, win, timedOut, emptyPolls, hbTick, fatal >>
  /\ UNCHANGED codecVars

\* select { case <-l.exitChan: return }
loop_exit ==
  /\ Alive /\ supPc = "select"
  /\ exitChan = "closed"
  /\ supPc' = "idle"
  /\ waitGroup' = waitGroup - 1
  /\ Quiet
  /\ UNCHANGED << appVars, exitChan, outData, queue, usbCtx, cbs, timeAfter, product, intf,
                  endpointWg, sndVars, rcvVars, prodVars, envVars, histVars, fatal >>
  /\ UNCHANGED codecVars

\* product.DefaultInterface(); log.Fatal on error
loop_DefaultInterface ==
  /\ Alive /\ supPc = "DefaultInterface"
  /\ \E ok \in BOOLEAN :
       IF ok THEN intf' = "claimed" /\ supPc' = "OutEndpoint" /\ UNCHANGED fatal
             ELSE fatal' = "DefaultInterface" /\ UNCHANGED << intf, supPc >>
  /\ Quiet
  /\ UNCHANGED << appVars, linkVars, timeAfter, product, endpointWg, sndVars, rcvVars,
                  prodVars, envVars, histVars >>
  /\ UNCHANGED codecVars

\* intf.OutEndpoint(1); log.Fatal on error
loop_OutEndpoint ==
  /\ Alive /\ supPc = "OutEndpoint"
  /\ \E ok \in BOOLEAN :
       IF ok THEN supPc' = "InEndpoint" /\ UNCHANGED fatal
             ELSE fatal' = "OutEndpoint" /\ UNCHANGED supPc
  /\ Quiet
  /\ UNCHANGED << appVars, linkVars, timeAfter, product, intf, endpointWg, sndVars, rcvVars,
                  prodVars, envVars, histVars >>
  /\ UNCHANGED codecVars

\* intf.InEndpoint(1); log.Fatal on error
loop_InEndpoint ==
  /\ Alive /\ supPc = "InEndpoint"
  /\ \E ok \in BOOLEAN :
       IF ok THEN supPc' = "spawn" /\ UNCHANGED fatal
             ELSE fatal' = "InEndpoint" /\ UNCHANGED supPc
  /\ Quiet
  /\ UNCHANGED << appVars, linkVars, timeAfter, product, intf, endpointWg, sndVars, rcvVars,
                  prodVars, envVars, histVars >>
  /\ UNCHANGED codecVars

\* endpointWg.Wrap(outEndpointProcess); endpointWg.Wrap(inEndpointProcess)
loop_spawn ==
  /\ Alive /\ supPc = "spawn"
  /\ endpointWg' = endpointWg + 2
  /\ sndPc' = "onReadySend"
  /\ rcvPc' = "NewStream"
  /\ supPc' = "Wait"
  /\ Quiet
  /\ UNCHANGED << appVars, linkVars, timeAfter, product, intf, buff, remaining,
                  stream, br, rxHdr, delivered, prodVars, envVars, histVars, fatal >>
  /\ UNCHANGED << initPc, codecVars >>

\* a Supervisor that runs its deferred calls without joining the two tasks
loop_Wait_unjoined ==
  /\ Alive /\ supPc = "Wait"
  /\ supPc' = "defer_done"
  /\ Quiet
  /\ UNCHANGED << appVars, linkVars, timeAfter, product, intf, endpointWg, sndVars, rcvVars,
                  prodVars, envVars, histVars, fatal >>
  /\ UNCHANGED codecVars

\* endpointWg.Wait() returns
loop_Wait ==
  /\ Alive /\ supPc = "Wait"
  /\ Wait(endpointWg)
  /\ supPc' = "defer_done"
  /\ Quiet
  /\ UNCHANGED << appVars, linkVars, timeAfter, product, intf, endpointWg, sndVars, rcvVars,
                  prodVars, envVars, histVars, fatal >>
  /\ UNCHANGED codecVars

\* deferred done(): the interface is released
loop_done ==
  /\ Alive /\ supPc = "defer_done"
  /\ intf' = "released"
  /\ supPc' = "defer_Close"
  /\ Quiet
  /\ UNCHANGED << appVars, linkVars, timeAfter, product, endpointWg, sndVars, rcvVars,
                  prodVars, envVars, histVars, fatal >>
  /\ UNCHANGED codecVars

\* deferred product.Close(); loop returns
loop_Close ==
  /\ Alive /\ supPc = "defer_Close"
  /\ product' = "closed"
  /\ supPc' = "idle"
  /\ waitGroup' = waitGroup - 1
  /\ Quiet
  /\ UNCHANGED << appVars, exitChan, outData, queue, usbCtx, cbs, timeAfter, intf,
                  endpointWg, sndVars, rcvVars, prodVars, envVars, histVars, fatal >>
  /\ UNCHANGED codecVars


\* ------------------------------------------------- outEndpointProcess (Sender)
\* out.Write(data): the transfer succeeds unless the endpoint has failed
OutWrite(data) == [data |-> data, ok |-> ~epFault]

\* a Sender that never batches
Fits_never(rem, bMsg) == FALSE

\* remaining > len(bMsg)
Fits(rem, bMsg) == rem > Len(bMsg)

\* The writes ws, each followed by log.Fatal if it fails: what reaches the
\* endpoint, the successful writes and the fate of the process.
WriteOrFatal(ws) ==
  IF epFault
    THEN /\ outNow' = << OutWrite(ws[1]) >>
         /\ fatal' = "Write"
         /\ UNCHANGED sent
    ELSE /\ outNow' = [i \in 1..Len(ws) |-> OutWrite(ws[i])]
         /\ sent' = sent \o ws
         /\ UNCHANGED fatal

\* the batch window after the writes ws that end it
CloseWindow(w, ws) ==
  IF epFault THEN w ELSE [w EXCEPT !.writes = w.writes \o ws, !.closed = TRUE]

\* sendUsbMessage: marshal and write once; the error is returned
sendUsbMessage(msg) ==
  LET m == Marshal(msg)
  IN  IF m.err # "nil" THEN [writes |-> <<>>, err |-> m.err]
      ELSE [writes |-> << OutWrite(m.buf) >>, err |-> IF epFault THEN "Write" ELSE "nil"]

\* l.onReadySend(), then the batch buffer is made
outEndpointProcess_onReadySend ==
  /\ Alive /\ sndPc = "onReadySend"
  /\ cbNow' = Call("onReadySend", cbs.onReadySend)
  /\ outNow' = <<>> /\ rxNow' = <<>>
  /\ readyCount' = readyCount + 1
  /\ buff' = <<>>
  /\ sndPc' = "select"
  /\ UNCHANGED << appVars, linkVars, supVars, remaining, rcvVars, prodVars, envVars,
                  missed, sent, win, timedOut, emptyPolls, hbTick, fatal >>
  /\ UNCHANGED << initPc, codecVars >>

\* case <-time.After(timeAfter): a Heartbeat is sent, its error dropped
outEndpointProcess_heartbeat ==
  /\ Alive /\ sndPc = "select"
  /\ outNow' = sendUsbMessage(Msg("Heartbeat", <<>>)).writes
  /\ hbTick' = ~hbTick
  /\ cbNow' = NoCall /\ rxNow' = <<>>
  /\ UNCHANGED << appVars, linkVars, supVars, sndVars, rcvVars, prodVars, envVars,
                  missed, readyCount, sent, win, timedOut, emptyPolls, fatal >>
  /\ UNCHANGED codecVars

\* case msg := <-l.outData: the first message of a batch window
outEndpointProcess_dequeue ==
  /\ Alive /\ sndPc = "select"
  /\ outData = "open" /\ queue # <<>>
  /\ queue' = Tail(queue)
  /\ cbNow' = NoCall /\ rxNow' = <<>>
  /\ LET m == Marshal(Head(queue))
         w == [deq |-> m.buf, msgs |-> 1, writes |-> <<>>, closed |-> FALSE]
     IN  IF m.err # "nil"
           THEN /\ fatal' = (IF m.err = "panic" THEN "panic" ELSE "Marshal")
                /\ outNow' = <<>>
                /\ UNCHANGED << sndVars, sent, win >>
           ELSE IF Fits(BuffCap, m.buf)
             THEN /\ remaining' = BuffCap - Len(m.buf)
                  /\ buff' = buff \o m.buf
                  /\ sndPc' = "batch"
                  /\ win' = w
                  /\ outNow' = <<>>
                  /\ UNCHANGED << sent, fatal >>
             ELSE /\ remaining' = BuffCap
                  /\ WriteOrFatal(<< m.buf >>)
                  /\ win' = CloseWindow(w, << m.buf >>)
                  /\ UNCHANGED << sndPc, buff >>
  /\ UNCHANGED << appVars, exitChan, outData, waitGroup, usbCtx, cbs, supVars, rcvVars,
                  prodVars, envVars, missed, readyCount, timedOut, emptyPolls, hbTick >>
  /\ UNCHANGED << initPc, codecVars >>

\* time.Now().Sub(start) > 300 ms: the buffer is written and the window ends
outEndpointProcess_expired ==
  /\ Alive /\ sndPc = "batch"
  /\ WriteOrFatal(<< buff >>)
  /\ win' = CloseWindow(win, << buff >>)
  /\ IF epFault THEN UNCHANGED << buff, sndPc >>
                ELSE buff' = <<>> /\ sndPc' = "select"
  /\ timedOut' = TRUE
  /\ cbNow' = NoCall /\ rxNow' = <<>>
  /\ UNCHANGED << appVars, linkVars, supVars, remaining, rcvVars, prodVars, envVars,
                  missed, readyCount, emptyPolls, hbTick >>
  /\ UNCHANGED << initPc, codecVars >>

\* the message written before the buffer, and the buffer not written at all
FlushAndWrite_swapped(buffer, bMsg) == << bMsg, buffer >>
FlushAndWrite_dropsBuffer(buffer, bMsg) == << bMsg >>

\* the writes that end a window on a message that does not fit: the buffer,
\* then the message
FlushAndWrite(buffer, bMsg) == << buffer, bMsg >>

\* case msg = <-l.outData inside the window: append, or flush and write
outEndpointProcess_poll ==
  /\ Alive /\ sndPc = "batch"
  /\ outData = "open" /\ queue # <<>>
  /\ queue' = Tail(queue)
  /\ cbNow' = NoCall /\ rxNow' = <<>>
  /\ LET m == Marshal(Head(queue))
         w == [win EXCEPT !.deq = win.deq \o m.buf, !.msgs = win.msgs + 1]
     IN  IF m.err # "nil"
           THEN /\ fatal' = (IF m.err = "panic" THEN "panic" ELSE "Marshal")
                /\ outNow' = <<>>
                /\ UNCHANGED << sndVars, sent, win >>
           ELSE IF Fits(remaining, m.buf)
             THEN /\ remaining' = remaining - Len(m.buf)
                  /\ buff' = buff \o m.buf
                  /\ win' = w
                  /\ outNow' = <<>>
                  /\ UNCHANGED << sndPc, sent, fatal >>
             ELSE /\ WriteOrFatal(FlushAndWrite(buff, m.buf))
                  /\ win' = CloseWindow(w, FlushAndWrite(buff, m.buf))
                  /\ IF epFault THEN UNCHANGED << buff, sndPc >>
                                ELSE buff' = <<>> /\ sndPc' = "select"
                  /\ UNCHANGED remaining
  /\ UNCHANGED << appVars, exitChan, outData, waitGroup, usbCtx, cbs, supVars, rcvVars,
                  prodVars, envVars, missed, readyCount, timedOut, emptyPolls, hbTick >>
  /\ UNCHANGED << initPc, codecVars >>

\* default: the queue is empty, the buffer is written and the window ends
outEndpointProcess_default ==
  /\ Alive /\ sndPc = "batch"
  /\ queue = <<>>
  /\ WriteOrFatal(<< buff >>)
  /\ win' = CloseWindow(win, << buff >>)
  /\ IF epFault THEN UNCHANGED << buff, sndPc >>
                ELSE buff' = <<>> /\ sndPc' = "select"
  /\ emptyPolls' = emptyPolls + 1
  /\ cbNow' = NoCall /\ rxNow' = <<>>
  /\ UNCHANGED << appVars, linkVars, supVars, remaining, rcvVars, prodVars, envVars,
                  missed, readyCount, timedOut, hbTick >>
  /\ UNCHANGED << initPc, codecVars >>

\* case <-l.exitChan: return
outEndpointProcess_exit ==
  /\ Alive /\ sndPc = "select"
  /\ exitChan = "closed"
  /\ sndPc' = "idle"
  /\ endpointWg' = endpointWg - 1
  /\ Quiet
  /\ UNCHANGED << appVars, linkVars, supPc, timeAfter, product, intf, buff, remaining,
                  rcvVars, prodVars, envVars, histVars, fatal >>
  /\ UNCHANGED << initPc, codecVars >>

\* ------------------------------------------------------------- SendMessage
\* The values the producer hands to SendMessage as its k-th message: a
\* field-less message, a short and an oversized SendFile, and a value that is
\* no registered message.
Messages(k) ==
  { Msg("Unplugged", <<>>), Msg("SendFile", Rep(k, 1)), Msg("SendFile", Rep(k, BuffCap)),
    Msg("NotAMessage", <<>>) }

\* a send that overwrites the newest queued message when the queue is full
SendMessage_overwrites(msg) ==
  /\ Alive /\ prodPc = "idle" /\ outData = "open"
  /\ Quiet
  /\ queue' = IF Len(queue) < QueueCap THEN Append(queue, msg)
                                       ELSE Append(SubSeq(queue, 1, Len(queue) - 1), msg)
  /\ enq' = Append(enq, msg)
  /\ UNCHANGED << appVars, exitChan, outData, waitGroup, usbCtx, cbs, supVars, sndVars,
                  rcvVars, envVars, histVars, prodPc, pending, fatal >>
  /\ UNCHANGED codecVars

\* l.outData <- msg
SendMessage(msg) ==
  /\ Alive /\ prodPc = "idle"
  /\ Quiet
  /\ CASE outData = "nil" ->
            \* a send on a nil channel blocks for ever
            /\ prodPc' = "blockedNil" /\ pending' = << msg >>
            /\ UNCHANGED << queue, enq, fatal >>
       [] outData = "closed" ->
            \* a send on a closed channel panics
            /\ fatal' = "send on closed channel"
            /\ UNCHANGED << prodPc, pending, queue, enq >>
       [] outData = "open" /\ Len(queue) < QueueCap ->
            /\ queue' = Append(queue, msg) /\ enq' = Append(enq, msg)
            /\ UNCHANGED << prodPc, pending, fatal >>
       [] OTHER ->
            /\ prodPc' = "blockedFull" /\ pending' = << msg >>
            /\ UNCHANGED << queue, enq, fatal >>
  /\ UNCHANGED << appVars, exitChan, outData, waitGroup, usbCtx, cbs, supVars, sndVars,
                  rcvVars, envVars, histVars >>
  /\ UNCHANGED codecVars

\* the producer blocked on a full queue: room appears and the send completes
SendMessage_resume ==
  /\ Alive /\ prodPc = "blockedFull"
  /\ outData = "open" /\ Len(queue) < QueueCap
  /\ queue' = Append(queue, pending[1]) /\ enq' = Append(enq, pending[1])
  /\ prodPc' = "idle" /\ pending' = <<>>
  /\ Quiet
  /\ UNCHANGED << appVars, exitChan, outData, waitGroup, usbCtx, cbs, supVars, sndVars,
                  rcvVars, envVars, histVars, fatal >>
  /\ UNCHANGED codecVars

\* the producer blocked on a full queue that was closed under it: the send panics
SendMessage_panic ==
  /\ Alive /\ prodPc = "panic"
  /\ fatal' = "send on closed channel"
  /\ Quiet
  /\ UNCHANGED << appVars, linkVars, supVars, sndVars, rcvVars, prodVars, envVars, histVars >>
  /\ UNCHANGED codecVars

\* ------------------------------------------------ inEndpointProcess (Receiver)
\* a reader that takes the newest transfer of the stream first
bufioRead_newestFirst(n) ==
  IF br # <<>>
    THEN [data |-> Take(br, n), err |-> "nil", br |-> Drop(br, n), wire |-> inWire]
    ELSE IF inWire # <<>>
      THEN [data |-> Take(inWire[Len(inWire)], n), err |-> "nil",
            br |-> Drop(inWire[Len(inWire)], n), wire |-> SubSeq(inWire, 1, Len(inWire) - 1)]
      ELSE [data |-> <<>>, err |-> "read", br |-> br, wire |-> inWire]

\* bufio.Reader.Read(buf) with len(buf) = n: what is buffered, else one read
\* of the stream; at most n bytes, and never a second read to fill buf.
CanRead == br # <<>> \/ inWire # <<>> \/ epFault

bufioRead(n) ==
  IF br # <<>>
    THEN [data |-> Take(br, n), err |-> "nil", br |-> Drop(br, n), wire |-> inWire]
    ELSE IF inWire # <<>>
      THEN [data |-> Take(Head(inWire), n), err |-> "nil",
            br |-> Drop(Head(inWire), n), wire |-> Tail(inWire)]
      ELSE [data |-> <<>>, err |-> "read", br |-> br, wire |-> inWire]

\* msg.header.Type == VideoDataPacketType || msg.header.Type == AudioDataPacketType
IsMedia(type) == type = LE32(VideoDataPacketType) \/ type = LE32(AudioDataPacketType)

\* inEndpointProcess on an error from receiveVideoAudioUsbMessage
\* (the returned packet is the zero usbMessage, its buf nil)
OnReceiveError(err) ==
  /\ cbNow' = IF cbs.onError # 0 THEN Call("onError", err) ELSE NoCall
  /\ rcvPc' = "select"

\* inEndpointProcess on a packet returned without error
Dispatch(hdr, buf) ==
  /\ rcvPc' = "select"
  /\ IF cbs.onData = 0
       THEN cbNow' = NoCall
       ELSE IF hdr.Type = LE32(VideoDataPacketType)
         THEN LET v == UnmarhalVideoData(buf)
              IN  cbNow' = IF v.err # "nil" /\ cbs.onError # 0
                             THEN Call("onError", v.err) ELSE Call("onVideo", v.video)
         ELSE IF hdr.Type = LE32(AudioDataPacketType)
           THEN LET a == UnmarshalAudioData(buf)
                IN  cbNow' = IF a.err # "nil" /\ cbs.onError # 0
                               THEN Call("onError", a.err) ELSE Call("onAudio", a.audio)
           ELSE cbNow' = NoCall

\* receiveVideoAudioUsbMessage on a message receiveUsbMessage returned
\* without error: a media message goes to the dispatch, any other is dropped
\* and the next header is read
Received(hdr, buf) ==
  IF IsMedia(hdr.Type)
    THEN Dispatch(hdr, buf)
    ELSE cbNow' = NoCall /\ rcvPc' = "header"

\* in.NewStream; log.Fatal on error
inEndpointProcess_NewStream ==
  /\ Alive /\ rcvPc = "NewStream"
  /\ \E ok \in BOOLEAN :
       IF ok THEN /\ stream' = "open" /\ br' = <<>> /\ inWire' = <<>>
                  /\ delivered' = <<>>
                  /\ rcvPc' = "select" /\ UNCHANGED fatal
             ELSE fatal' = "NewStream" /\ UNCHANGED << stream, br, inWire, delivered, rcvPc >>
  /\ Quiet
  /\ UNCHANGED << appVars, linkVars, supVars, sndVars, rxHdr, prodVars, bus, nPkts, epFault,
                  histVars >>
  /\ UNCHANGED codecVars

\* select { case <-l.exitChan: return }, and the deferred stream.Close()
inEndpointProcess_exit ==
  /\ Alive /\ rcvPc = "select"
  /\ exitChan = "closed"
  /\ stream' = "closed"
  /\ rcvPc' = "idle"
  /\ endpointWg' = endpointWg - 1
  /\ Quiet
  /\ UNCHANGED << appVars, linkVars, supPc, timeAfter, product, intf, sndVars, br, rxHdr, delivered,
                  prodVars, envVars, histVars, fatal >>
  /\ UNCHANGED codecVars

\* select { default: }, into receiveVideoAudioUsbMessage
inEndpointProcess_default ==
  /\ Alive /\ rcvPc = "select"
  /\ exitChan # "closed"
  /\ rcvPc' = "header"
  /\ Quiet
  /\ UNCHANGED << appVars, linkVars, supVars, sndVars, stream, br, rxHdr, delivered, prodVars,
                  envVars, histVars, fatal >>
  /\ UNCHANGED codecVars

\* receiveUsbMessage: the read of the 16 header bytes and UnmarshalHeader
receiveUsbMessage_header ==
  /\ Alive /\ rcvPc = "header"
  /\ CanRead
  /\ LET r == bufioRead(16)
         h == UnmarshalHeader(r.data)
     IN  /\ br' = r.br /\ inWire' = r.wire
         /\ IF r.err # "nil"
              THEN OnReceiveError(r.err) /\ UNCHANGED rxHdr
              ELSE IF Len(r.data) # 16
                \* the zero message with a nil error: not media, so read on
                THEN Received(ZeroHeader, <<>>) /\ UNCHANGED rxHdr
                ELSE IF h.err # "nil"
                  THEN OnReceiveError(h.err) /\ UNCHANGED rxHdr
                  ELSE IF U32(h.hdr.Length) > 0
                    THEN rxHdr' = h.hdr /\ rcvPc' = "payload" /\ cbNow' = NoCall
                    ELSE Received(h.hdr, <<>>) /\ UNCHANGED rxHdr
         /\ rxNow' = IF r.err = "nil" /\ h.err = "nil" /\ U32(h.hdr.Length) = 0
                       THEN << [header |-> h.hdr, buf |-> <<>>] >> ELSE <<>>
  /\ delivered' = IF cbNow'.cb \in {"onVideo", "onAudio"}
                    THEN Append(delivered, [cb |-> cbNow'.cb, packet |-> rxNow'[1]])
                    ELSE delivered
  /\ outNow' = <<>>
  /\ UNCHANGED << appVars, linkVars, supVars, sndVars, stream, prodVars, bus, nPkts, epFault,
                  histVars, fatal >>
  /\ UNCHANGED codecVars

\* receiveUsbMessage: the read of the hdr.Length payload bytes
receiveUsbMessage_payload ==
  /\ Alive /\ rcvPc = "payload"
  /\ CanRead
  /\ LET n == U32(rxHdr.Length)
         r == bufioRead(n)
     IN  /\ br' = r.br /\ inWire' = r.wire
         /\ IF r.err # "nil"
              THEN OnReceiveError(r.err)
              ELSE IF Len(r.data) # n
                THEN Received(ZeroHeader, <<>>)
                ELSE Received(rxHdr, r.data)
         /\ rxNow' = IF r.err = "nil" /\ Len(r.data) = n
                       THEN << [header |-> rxHdr, buf |-> r.data] >> ELSE <<>>
  /\ delivered' = IF cbNow'.cb \in {"onVideo", "onAudio"}
                    THEN Append(delivered, [cb |-> cbNow'.cb, packet |-> rxNow'[1]])
                    ELSE delivered
  /\ rxHdr' = ZeroHeader
  /\ outNow' = <<>>
  /\ UNCHANGED << appVars, linkVars, supVars, sndVars, stream, prodVars, bus, nPkts, epFault,
                  histVars, fatal >>
  /\ UNCHANGED codecVars

\* ----------------------------------------------------------------- USB side
\* one framed packet as the device puts it on the wire
Frame(type, payload) == magicNumber \o LE32(Len(payload)) \o LE32(type) \o Xor32(LE32(type)) \o payload

\* a well-formed VideoData packet with no data
VideoPacket == Frame(VideoDataPacketType, LE32(800) \o LE32(480) \o LE32(0) \o LE32(0) \o LE32(0))

\* the packets the device sends: Plugged, an unknown code, a VideoData with
\* no data, a VideoData whose length field is wrong, an AudioData command,
\* and headers with a wrong magic and a wrong complement
InPackets ==
  { Frame(PluggedPacketType, <<>>),
    Frame(119, << 9 >>),
    VideoPacket,
    Frame(VideoDataPacketType, LE32(800) \o LE32(480) \o LE32(0) \o LE32(1) \o LE32(0)),
    Frame(AudioDataPacketType, LE32(3) \o LE32(0) \o LE32(0) \o << 7 >>),
    << 170, 85, 170, 84 >> \o LE32(0) \o LE32(6) \o Xor32(LE32(6)),
    magicNumber \o LE32(0) \o LE32(6) \o LE32(6) }

\* how a packet may arrive: in one transfer, or cut in two at byte 8 or 16
Chunkings(p) ==
  { << p >> } \cup { << Take(p, k), Drop(p, k) >> : k \in { j \in {8, 16} : j < Len(p) } }

\* the device sends a packet
DeviceSend(chunks) ==
  /\ Alive /\ stream = "open" /\ ~epFault
  /\ nPkts' = nPkts + 1
  /\ inWire' = inWire \o chunks
  /\ Quiet
  /\ UNCHANGED << appVars, linkVars, supVars, sndVars, rcvVars, prodVars, bus, epFault,
                  histVars, fatal >>
  /\ UNCHANGED codecVars

\* devices are plugged in or removed, or enumeration starts or stops failing
\* (bus = -1)
BusChange(b) ==
  /\ Alive /\ b # bus
  /\ bus' = b
  /\ Quiet
  /\ UNCHANGED << appVars, linkVars, supVars, sndVars, rcvVars, prodVars, inWire, nPkts,
                  epFault, histVars, fatal >>
  /\ UNCHANGED codecVars

\* transfers on the endpoints of the attached device start to fail
DeviceFault ==
  /\ Alive /\ product = "open" /\ ~epFault
  /\ epFault' = TRUE
  /\ Quiet
  /\ UNCHANGED << appVars, linkVars, supVars, sndVars, rcvVars, prodVars, bus, inWire, nPkts,
                  histVars, fatal >>
  /\ UNCHANGED codecVars

\* --------------------------------------------------------------------- spec
\* the application's callbacks of generation g, with none left nil
AllCallbacks(g) == [onReadySend |-> g, onVideo |-> g, onAudio |-> g, onData |-> g, onError |-> g]

LinkStep ==
  \/ Stop_Wait
  \/ Stop_close
  \/ Stop_clear
  \/ SendMessage_resume
  \/ SendMessage_panic
  \/ loop_timer
  \/ loop_exit
  \/ loop_DefaultInterface
  \/ loop_OutEndpoint
  \/ loop_InEndpoint
  \/ loop_spawn
  \/ loop_Wait
  \/ loop_done
  \/ loop_Close
  \/ outEndpointProcess_onReadySend
  \/ outEndpointProcess_heartbeat
  \/ outEndpointProcess_dequeue
  \/ outEndpointProcess_expired
  \/ outEndpointProcess_poll
  \/ outEndpointProcess_default
  \/ outEndpointProcess_exit
  \/ inEndpointProcess_NewStream
  \/ inEndpointProcess_exit
  \/ inEndpointProcess_default
  \/ receiveUsbMessage_header
  \/ receiveUsbMessage_payload

\* The whole link: an application thread that starts and stops it, a producer,
\* and a device that comes and goes, sends a packet and fails.  (Failing
\* enumeration, bus = -1, is explored where the queue is idle, below.)
Next ==
  \/ nCalls < MaxCalls /\ Start(AllCallbacks(nCalls + 1))
  \/ nCalls < MaxCalls /\ Stop
  \/ Len(enq) + Len(pending) < LifeMsgs /\ SendMessage(Msg("Unplugged", <<>>))
  \/ nPkts < LifePkts /\ DeviceSend(<< VideoPacket >>)
  \/ \E b \in 0..1 : BusChange(b)
  \/ DeviceFault
  \/ LinkStep

Spec == Init /\ [][Next]_vars

\* ------------------------------------------------- the link with an idle queue
\* The same link when no producer ever calls SendMessage, under the fairness
\* the Go scheduler gives: every goroutine that can take a step takes it, and a
\* select picks among its ready cases at random, so no ready case is passed
\* over for ever.  Nothing is assumed of the application or of the device.
IdleNext ==
  \/ nCalls < MaxCalls /\ Start(AllCallbacks(nCalls + 1))
  \/ nCalls < MaxCalls /\ Stop
  \/ nPkts < LifePkts /\ DeviceSend(<< VideoPacket >>)
  \/ \E b \in -1..1 : BusChange(b)
  \/ DeviceFault
  \/ Stop_Wait
  \/ Stop_close
  \/ Stop_clear
  \/ loop_timer
  \/ loop_exit
  \/ loop_DefaultInterface
  \/ loop_OutEndpoint
  \/ loop_InEndpoint
  \/ loop_spawn
  \/ loop_Wait
  \/ loop_done
  \/ loop_Close
  \/ outEndpointProcess_onReadySend
  \/ outEndpointProcess_heartbeat
  \/ outEndpointProcess_exit
  \/ inEndpointProcess_NewStream
  \/ inEndpointProcess_exit
  \/ inEndpointProcess_default
  \/ receiveUsbMessage_header
  \/ receiveUsbMessage_payload

Fairness ==
  /\ WF_vars(Stop_Wait) /\ WF_vars(Stop_close) /\ WF_vars(Stop_clear)
  /\ WF_vars(loop_timer) /\ WF_vars(loop_exit)
  /\ WF_vars(loop_DefaultInterface) /\ WF_vars(loop_OutEndpoint) /\ WF_vars(loop_InEndpoint)
  /\ WF_vars(loop_spawn) /\ WF_vars(loop_Wait) /\ WF_vars(loop_done) /\ WF_vars(loop_Close)
  /\ WF_vars(outEndpointProcess_onReadySend) /\ WF_vars(outEndpointProcess_heartbeat)
  /\ WF_vars(outEndpointProcess_exit)
  /\ WF_vars(inEndpointProcess_NewStream) /\ WF_vars(inEndpointProcess_exit)
  /\ WF_vars(inEndpointProcess_default)
  /\ WF_vars(receiveUsbMessage_header) /\ WF_vars(receiveUsbMessage_payload)

FairSpec == Init /\ [][IdleNext]_vars /\ Fairness

\* ------------------------------------------------------- one running session
\* The state right after loop has spawned the Sender and the Receiver of the
\* first attachment of a link started with the callbacks c.
Attached(c) ==
  /\ ctlPc = "idle" /\ nCalls = 1 /\ lastCall = "Start"
  /\ exitChan = "open" /\ outData = "open" /\ queue = <<>> /\ waitGroup = 1
  /\ usbCtx = "open" /\ cbs = c
  /\ supPc = "Wait" /\ timeAfter = 2 /\ product = "open" /\ intf = "claimed" /\ endpointWg = 2
  /\ sndPc = "onReadySend" /\ buff = <<>> /\ remaining = 0 /\ initPc = 0
  /\ rcvPc = "NewStream" /\ stream = "none" /\ br = <<>> /\ rxHdr = ZeroHeader
  /\ delivered = <<>>
  /\ prodPc = "idle" /\ pending = <<>> /\ enq = <<>>
  /\ bus = 1 /\ inWire = <<>> /\ nPkts = 0 /\ epFault = FALSE
  /\ cbNow = NoCall /\ outNow = <<>> /\ rxNow = <<>>
  /\ missed = FALSE /\ readyCount = 0 /\ sent = <<>> /\ win = NoWindow
  /\ timedOut = FALSE /\ emptyPolls = 0 /\ hbTick = FALSE
  /\ fatal = "none"
  /\ NoCodecCall

\* The Sender of a running session with a producer, and an OUT endpoint that
\* may fail.
SendInit == Attached(AllCallbacks(1))

SendNext ==
  \/ \E msg \in Messages(Len(enq) + 1) :
       Len(enq) + Len(pending) < MaxMsgs /\ SendMessage(msg)
  \/ SendMessage_resume
  \/ outEndpointProcess_onReadySend
  \/ outEndpointProcess_heartbeat
  \/ outEndpointProcess_dequeue
  \/ outEndpointProcess_expired
  \/ outEndpointProcess_poll
  \/ outEndpointProcess_default
  \/ DeviceFault

SendSpec == SendInit /\ [][SendNext]_vars

\* The Receiver of a running session with a device that sends packets, whole
\* or cut in two, and an IN endpoint that may fail.
RecvInit == \E c \in CallbackSets(1) : Attached(c)

RecvNext ==
  \/ \E p \in InPackets : \E chunks \in Chunkings(p) :
       nPkts < MaxPackets /\ DeviceSend(chunks)
  \/ inEndpointProcess_NewStream
  \/ inEndpointProcess_default
  \/ receiveUsbMessage_header
  \/ receiveUsbMessage_payload
  \/ DeviceFault

RecvSpec == RecvInit /\ [][RecvNext]_vars

\* ------------------------------------------------------------------ lifecycle
\* Stop was the last lifecycle call and it has returned
Stopped == ctlPc = "idle" /\ lastCall = "Stop"

\* C1: once Stop has returned no step invokes a callback (the Supervisor, the
\* Sender and the Receiver, the only callers, have all returned) and the USB
\* context is not open any more, from whatever state Stop was called in.
C1_NoCallbackAfterStop ==
  Stopped =>
    /\ cbNow = NoCall
    /\ supPc = "idle" /\ sndPc = "idle" /\ rcvPc = "idle"
    /\ cbs = NoCallbacks
    /\ usbCtx # "open"

\* Stop has returned from a session that was attached and running: on_ready_send
\* had been called, the stream and the device are closed, the context released
C1_StoppedAfterSession ==
  /\ Stopped /\ usbCtx = "closed"
  /\ readyCount = 1 /\ stream = "closed" /\ product = "closed"

\* C2: a Start on a running link and a Stop on a link that is not running
\* change nothing: callbacks, queue, exit signal, USB context and the tasks
\* (no second Supervisor) stay as they are, and the call returns.
C2_OutOfOrderCallsAreNoOps ==
  [][ /\ (nCalls' # nCalls /\ lastCall' = "Start" /\ exitChan # "nil")
         => /\ UNCHANGED << linkVars, supVars, sndVars, rcvVars, prodVars >>
            /\ ctlPc' = "idle"
      /\ (nCalls' # nCalls /\ lastCall' = "Stop" /\ exitChan = "nil")
         => /\ UNCHANGED << linkVars, supVars, sndVars, rcvVars, prodVars >>
            /\ ctlPc' = "idle" ]_vars

\* Start has been called with the callbacks of this call number and has
\* returned, and the installed callbacks are still those of an earlier Start
C2_SecondStartIgnored ==
  /\ lastCall = "Start" /\ ctlPc = "idle"
  /\ cbs.onVideo # 0 /\ cbs.onVideo < nCalls

\* C4: a failed write on the OUT endpoint ends the attachment: the Sender has
\* exited and the process lives on to tear down and rediscover.
C4_WriteFailureEndsAttachment ==
  (\E i \in 1..Len(outNow) : ~outNow[i].ok) => (sndPc = "idle" /\ Alive)

\* ------------------------------------------------------- discovery and Stop
\* the process has died in log.Fatal while acquiring the interface, an
\* endpoint or the IN stream of a device that was found
AcquisitionFailed == fatal \in {"DefaultInterface", "OutEndpoint", "InEndpoint", "NewStream"}

\* C3: Start returns; on_ready_send is called at most once per attachment and
\* has been called once the Sender serves the queue; a Stop called while the
\* Supervisor is still discovering returns unless a device is attached first;
\* and while a device stays on the bus of a started link the Supervisor
\* attaches it and on_ready_send is called, unless acquiring it fails.
C3_ReconnectReadyOnce ==
  /\ [](lastCall = "Start" => ctlPc = "idle")
  /\ [](readyCount <= 1 /\ (sndPc \in {"select", "batch"} => readyCount = 1))
  /\ (ctlPc = "Stop_Wait" /\ supPc = "select") ~> (ctlPc = "idle" \/ product = "open")
  /\ (supPc = "select" /\ exitChan = "open" /\ bus = 1)
       ~> \/ supPc = "Wait" /\ readyCount = 1
          \/ bus # 1 \/ exitChan # "open"
          \/ AcquisitionFailed

\* discovery has come up empty, and the link is now attached with
\* on_ready_send called once
C3_AttachedAfterMiss == missed /\ supPc = "Wait" /\ readyCount = 1 /\ sndPc = "select"

\* C5: once Stop has closed the exit signal it returns (or the process has
\* died), from every state.
C5_StopReturns == (ctlPc = "Stop_Wait") ~> (ctlPc = "idle" \/ ~Alive)

\* ------------------------------------------------------------------ heartbeat
\* Marshal(&Heartbeat{}): 16 bytes, magic, length 0, type 0xAA and its complement
HeartbeatPacket == << 170, 85, 170, 85, 0, 0, 0, 0, 170, 0, 0, 0, 85, 255, 255, 255 >>

\* C9: each expiry of the heartbeat timer makes exactly one OUT write, of the
\* 16-byte Heartbeat packet, and takes nothing from the queue; and if from some
\* point on the link stays running with its queue idle and Stop is not called,
\* the timer expires again and again.
C9_HeartbeatWhileIdle ==
  /\ [][ hbTick' # hbTick =>
           /\ Len(outNow') = 1 /\ outNow'[1].data = HeartbeatPacket
           /\ UNCHANGED << queue, sent, sndPc >> ]_vars
  /\ (<>[](Alive /\ exitChan = "open" /\ sndPc = "select" /\ queue = <<>>))
       => ([]<>hbTick /\ []<>~hbTick)

\* the last step wrote a Heartbeat, and it was not the first
C9_SecondHeartbeat ==
  /\ outNow = << [data |-> HeartbeatPacket, ok |-> TRUE] >>
  /\ ~hbTick /\ exitChan = "open" /\ queue = <<>>

\* --------------------------------------------------------------------- Sender
\* the marshalled bytes of the messages msgs, in order
MarshalAll(msgs) == Concat([i \in 1..Len(msgs) |-> Marshal(msgs[i]).buf])

IsPrefix(a, b) == Len(a) <= Len(b) /\ a = SubSeq(b, 1, Len(a))

\* the messages the Sender has taken from the queue
Dequeued == SubSeq(enq, 1, Len(enq) - Len(queue))

C7_WindowConservesBytes ==
  win.closed =>
    /\ Concat(win.writes) = win.deq
    /\ Len(win.writes) <= win.msgs + 1

\* a window of several messages that ended with two writes
C7_WindowOfTwoWrites == win.closed /\ win.msgs >= 2 /\ Len(win.writes) = 2

\* three messages that together fit the batch buffer have been enqueued, the
\* Sender has dequeued and written them all, and no window ran to its 300 ms
\* deadline
ThreeSmallWritten ==
  /\ Len(enq) = 3 /\ \A i \in 1..3 : Marshal(enq[i]).err = "nil"
  /\ Len(MarshalAll(enq)) < BuffCap
  /\ Alive /\ queue = <<>> /\ sndPc = "select" /\ ~timedOut

\* C8 (as stated): three small messages enqueued in quick succession go out as
\* exactly one OUT write that carries all three.
C8_ExactlyOneWrite == ThreeSmallWritten => sent = << MarshalAll(enq) >>

\* C8 (amended): they go out in order and complete in at most three writes,
\* one write for each time the Sender polled the queue and found it empty.
C8_OneWritePerEmptyPoll ==
  ThreeSmallWritten =>
    /\ Concat(sent) = MarshalAll(enq)
    /\ Len(sent) <= 3
    /\ Len(sent) = emptyPolls

\* the three went out together in one write
C8_Coalesced == ThreeSmallWritten /\ sent = << MarshalAll(enq) >>

\* ------------------------------------------------------------------- Receiver
\* C10: a well-framed packet that is neither VideoData nor AudioData is handed
\* to on_data by the step that finishes receiving it.
C10_NonMediaToOnData ==
  (rxNow # <<>> /\ ~IsMedia(rxNow[1].header.Type) /\ cbs.onData # 0)
    => cbNow.cb = "onData"

\* the Receiver is about to make a read that returns without error and fails
\* the framing: fewer bytes than asked for, a wrong magic or a wrong complement
FramingFailure ==
  /\ CanRead
  /\ \/ /\ rcvPc = "header"
        /\ bufioRead(16).err = "nil"
        /\ \/ Len(bufioRead(16).data) # 16
           \/ UnmarshalHeader(bufioRead(16).data).err # "nil"
     \/ /\ rcvPc = "payload"
        /\ bufioRead(U32(rxHdr.Length)).err = "nil"
        /\ Len(bufioRead(U32(rxHdr.Length)).data) # U32(rxHdr.Length)

\* the step is a read of the Receiver (not the device sending or failing)
ReceiverReads ==
  /\ rcvPc \in {"header", "payload"}
  /\ nPkts' = nPkts /\ epFault' = epFault
  /\ (br' # br \/ inWire' # inWire)

\* C11: every framing failure is reported through on_error by the read that
\* meets it, and the Receiver goes on with a fresh header read.
C11_FramingFailureReported ==
  [][ (FramingFailure /\ ReceiverReads /\ cbs.onError # 0)
        => (cbNow'.cb = "onError" /\ rcvPc' \in {"select", "header"}) ]_vars

\* the decoding the Receiver applies to the payload of a media packet
DecodeErr(hdr, buf) ==
  IF hdr.Type = LE32(VideoDataPacketType) THEN UnmarhalVideoData(buf).err
  ELSE IF hdr.Type = LE32(AudioDataPacketType) THEN UnmarshalAudioData(buf).err
  ELSE "nil"

\* C12: when the step has received a well-framed media packet whose payload
\* does not decode, no media callback is invoked for it, on_error is invoked
\* if one is installed, and the Receiver lives on at its loop head; a media
\* packet that decodes is dispatched to its media callback.
C12_DecodeErrorInsteadOfMedia ==
  (rxNow # <<>> /\ IsMedia(rxNow[1].header.Type) /\ cbs.onData # 0) =>
    IF DecodeErr(rxNow[1].header, rxNow[1].buf) # "nil"
      THEN /\ cbNow.cb \notin {"onVideo", "onAudio"}
           /\ cbs.onError # 0 => cbNow.cb = "onError"
           /\ Alive /\ rcvPc = "select"
      ELSE cbNow.cb \in {"onVideo", "onAudio"}

\* ------------------------------------------------------------ dispatch order
\* The packets the device may send as its k-th: a VideoData and an AudioData
\* that carry k (in unknown2 and in audioType), and a Plugged.
NumberedPackets(k) ==
  { Frame(VideoDataPacketType, LE32(800) \o LE32(480) \o LE32(0) \o LE32(0) \o LE32(k)),
    Frame(AudioDataPacketType, LE32(1) \o LE32(0) \o LE32(k) \o << 1 >>),
    Frame(PluggedPacketType, <<>>) }

\* The Receiver of a running session with a device that numbers its packets.
OrderInit == \E c \in CallbackSets(1) : Attached(c)

OrderNext ==
  \/ \E p \in NumberedPackets(nPkts + 1) : \E chunks \in Chunkings(p) :
       nPkts < MaxPackets /\ DeviceSend(chunks)
  \/ inEndpointProcess_NewStream
  \/ inEndpointProcess_default
  \/ receiveUsbMessage_header
  \/ receiveUsbMessage_payload
  \/ DeviceFault

OrderSpec == OrderInit /\ [][OrderNext]_vars

\* the bytes of a received packet as they were on the wire
Raw(packet) ==
  packet.header.Magic \o packet.header.Length \o packet.header.Type \o packet.header.TypeN
    \o packet.buf

\* the positions in the arrival order at which the device can have sent it
ArrivalOf(packet) == { k \in 1..nPkts : Raw(packet) \in NumberedPackets(k) }

\* C13: every media callback is for a packet that arrived, and of two
\* callbacks of the same kind the earlier one is for the packet that arrived
\* earlier.
C13_DispatchInArrivalOrder ==
  /\ \A i \in 1..Len(delivered) : ArrivalOf(delivered[i].packet) # {}
  /\ \A i, j \in 1..Len(delivered) :
       (i < j /\ delivered[i].cb = delivered[j].cb) =>
         \A a \in ArrivalOf(delivered[i].packet), b \in ArrivalOf(delivered[j].packet) : a < b

\* two packets of one kind have arrived and both have been dispatched
C13_TwoOfAKindDispatched ==
  /\ Len(delivered) = 2 /\ delivered[1].cb = delivered[2].cb
  /\ delivered[1].packet # delivered[2].packet

\* --------------------------------------------------------------- backpressure
\* The Sender and the producer of a running session under the scheduler's
\* fairness: a goroutine that can go on does, and a select does not pass over
\* a ready channel for ever.
SendFairness ==
  /\ WF_vars(outEndpointProcess_onReadySend)
  /\ WF_vars(outEndpointProcess_dequeue)
  /\ WF_vars(outEndpointProcess_poll)
  /\ WF_vars(outEndpointProcess_default)
  /\ WF_vars(outEndpointProcess_expired)
  /\ WF_vars(SendMessage_resume)

SendFairSpec == SendInit /\ [][SendNext]_vars /\ SendFairness

\* C14: the queue never holds more than its capacity; while the process lives
\* every enqueued message is in the queue, in the batch buffer or written; a
\* SendMessage blocks exactly when the queue is full, without an error or a
\* callback, and when it resumes its message is appended; and a blocked
\* SendMessage completes once the Sender has made room.
C14_BackpressureNoDrop ==
  /\ [](Len(queue) <= QueueCap)
  /\ [](Alive => Concat(sent) \o buff \o MarshalAll(queue) = MarshalAll(enq))
  /\ [][ (prodPc = "idle" /\ prodPc' = "blockedFull")
           => (Len(queue) = QueueCap /\ UNCHANGED << queue, enq, fatal >> /\ cbNow' = NoCall) ]_vars
  /\ [][ (prodPc = "blockedFull" /\ prodPc' = "idle")
           => (queue' = Append(queue, pending[1]) /\ enq' = Append(enq, pending[1])) ]_vars
  /\ (prodPc = "blockedFull") ~> (prodPc = "idle" \/ ~Alive)

\* a SendMessage is blocked with its message on a full queue while the Sender
\* is writing earlier messages
C14_BlockedOnFullQueue ==
  /\ prodPc = "blockedFull" /\ Len(pending) = 1 /\ Len(queue) = QueueCap /\ Alive
  /\ sent # <<>>

\* -------------------------------------------------------------------- Marshal
MarshalMsgs == 1

\* What may be handed to SendMessage as the k-th message: each registered
\* variant (Heartbeat and Unplugged without fields, the others with one packed
\* byte), a pointer to a struct that is not registered, and values that are no
\* pointer to a struct.
MarshalInputs(k) ==
  { Msg(v, IF v \in {"Heartbeat", "Unplugged"} THEN <<>> ELSE << k >>) : v \in DOMAIN messageTypes }
    \cup { Msg("NotAMessage", << k >>) }
    \cup { Val(kind) : kind \in NotStructPointers }

\* The Sender marshalling whatever the producer sends.
MarshalNext ==
  \/ \E msg \in MarshalInputs(Len(enq) + 1) :
       Len(enq) + Len(pending) < MarshalMsgs /\ SendMessage(msg)
  \/ outEndpointProcess_onReadySend
  \/ outEndpointProcess_heartbeat
  \/ outEndpointProcess_dequeue
  \/ outEndpointProcess_expired
  \/ outEndpointProcess_default
  \/ DeviceFault

MarshalSpec == SendInit /\ [][MarshalNext]_vars

\* Marshal(msg) is a consistent packet for a registered variant, and an error
\* for anything else
MarshalConsistent(msg) ==
  IF msg.variant \in DOMAIN messageTypes
    THEN /\ Marshal(msg).err = "nil"
         /\ Len(Marshal(msg).buf) >= 16
         /\ UnmarshalHeader(Take(Marshal(msg).buf, 16)) =
              [hdr |-> [Magic |-> magicNumber,
                         Length |-> LE32(Len(Marshal(msg).buf) - 16),
                         Type |-> LE32(messageTypes[msg.variant]),
                         TypeN |-> Xor32(LE32(messageTypes[msg.variant]))],
               err |-> "nil"]
    ELSE Marshal(msg).err \notin {"nil", "panic"}

\* C15: Marshal of every message handed to the link gives, for a registered
\* variant, bytes whose first 16 decode to magic, length = total - 16, the
\* registered type and its complement, and for any other value an error.
C15_MarshalHeaderConsistent == \A i \in 1..Len(enq) : MarshalConsistent(enq[i])

\* ---------------------------------------------------------------- the codec
\* Inputs of the header decoders: 16-byte headers with a right or wrong
\* magic, any length, known and unknown types and a right or wrong
\* complement; and inputs that are too short or too long.
HeaderWords ==
  { m \o l \o t \o tn :
      m \in { magicNumber, << 170, 85, 170, 84 >>, << 85, 170, 85, 170 >> },
      l \in { LE32(0), LE32(3700), << 255, 255, 255, 255 >> },
      t \in { LE32(6), LE32(170), LE32(119), LE32(0), << 255, 255, 255, 255 >> },
      tn \in { << 249, 255, 255, 255 >>, << 85, 255, 255, 255 >>, << 136, 255, 255, 255 >>,
               << 255, 255, 255, 255 >>, LE32(0), LE32(6), << 249, 255, 255, 127 >> } }

HeaderInputs ==
  HeaderWords
    \cup { Take(Frame(VideoDataPacketType, <<>>), n) : n \in {0, 1, 15} }
    \cup { Frame(VideoDataPacketType, << 0 >>) }

\* Video payloads: a 20-byte prefix whose length field is zero, small,
\* large or negative, followed by no to three bytes; and prefixes cut short.
VideoPrefixes ==
  { w \o LE32(480) \o f \o l \o u :
      w \in { LE32(800), << 255, 255, 255, 255 >> },
      f \in { LE32(0), LE32(5) },
      l \in { LE32(0), LE32(1), LE32(2), LE32(65536), << 255, 255, 255, 255 >>,
              << 254, 255, 255, 255 >>, << 0, 0, 0, 128 >> },
      u \in { LE32(0), LE32(7) } }

VideoInputs ==
  { p \o t : p \in VideoPrefixes, t \in { <<>>, << 1 >>, << 1, 2 >>, << 1, 2, 3 >> } }
    \cup { Take(p, n) : p \in VideoPrefixes, n \in {0, 18, 19} }

\* Audio payloads: a 12-byte prefix followed by a tail of no to five bytes;
\* and prefixes cut short.
AudioPrefixes ==
  { d \o v \o t :
      d \in { LE32(1), LE32(5) },
      v \in { LE32(0), << 0, 0, 128, 63 >> },
      t \in { LE32(1), << 255, 255, 255, 255 >> } }

AudioInputs ==
  { p \o t : p \in AudioPrefixes,
             t \in { <<>>, << 2 >>, << 0 >>, << 1, 2 >>, << 1, 2, 3 >>, << 1, 0, 0, 0 >>,
                     << 255, 255, 255, 255 >>, << 1, 2, 3, 4, 5 >> } }
    \cup { Take(p, n) : p \in AudioPrefixes, n \in {0, 11} }

\* One call of a function of the protocol package, on any of its inputs.
CodecInit ==
  /\ ProgInit /\ bus = 0
  /\ codecRet = <<>>
  /\ \/ codecPc = "UnmarshalHeader" /\ codecArg \in HeaderInputs
     \/ codecPc = "Unmarshal" /\ codecArg \in HeaderInputs
     \/ codecPc = "UnmarhalVideoData" /\ codecArg \in VideoInputs
     \/ codecPc = "UnmarshalAudioData" /\ codecArg \in AudioInputs

UnmarshalHeader_call ==
  /\ codecPc = "UnmarshalHeader"
  /\ codecRet' = UnmarshalHeader(codecArg)
  /\ codecPc' = "UnmarshalHeader_done"
  /\ UNCHANGED << progVars, codecArg >>

Unmarshal_call ==
  /\ codecPc = "Unmarshal"
  /\ codecRet' = Unmarshal_Header(codecArg)
  /\ codecPc' = "Unmarshal_done"
  /\ UNCHANGED << progVars, codecArg >>

UnmarhalVideoData_call ==
  /\ codecPc = "UnmarhalVideoData"
  /\ codecRet' = UnmarhalVideoData(codecArg)
  /\ codecPc' = "UnmarhalVideoData_done"
  /\ UNCHANGED << progVars, codecArg >>

UnmarshalAudioData_call ==
  /\ codecPc = "UnmarshalAudioData"
  /\ codecRet' = UnmarshalAudioData(codecArg)
  /\ codecPc' = "UnmarshalAudioData_done"
  /\ UNCHANGED << progVars, codecArg >>

CodecNext ==
  \/ UnmarshalHeader_call
  \/ Unmarshal_call
  \/ UnmarhalVideoData_call
  \/ UnmarshalAudioData_call

CodecSpec == CodecInit /\ [][CodecNext]_vars

\* C16: UnmarshalHeader accepts exactly the inputs of 16 bytes that begin
\* AA 55 AA 55 and whose bytes 12..15 are the complements of bytes 8..11;
\* it then returns the four words of the input, whatever the type, and
\* otherwise an error and the zero header.
C16_UnmarshalHeaderAccepts ==
  codecPc = "UnmarshalHeader_done" =>
    IF /\ Len(codecArg) = 16
       /\ SubSeq(codecArg, 1, 4) = << 170, 85, 170, 85 >>
       /\ \A i \in 1..4 : codecArg[12 + i] = 255 - codecArg[8 + i]
      THEN /\ codecRet.err = "nil"
           /\ codecRet.hdr = [Magic |-> SubSeq(codecArg, 1, 4), Length |-> SubSeq(codecArg, 5, 8),
                              Type |-> SubSeq(codecArg, 9, 12), TypeN |-> SubSeq(codecArg, 13, 16)]
      ELSE codecRet.err # "nil" /\ codecRet.hdr = ZeroHeader

\* a header with an unknown type code and a non-zero length has been accepted
C16_UnknownTypeAccepted ==
  /\ codecPc = "UnmarshalHeader_done" /\ codecRet.err = "nil"
  /\ codecRet.hdr.Type = LE32(119) /\ codecRet.hdr.Length = LE32(3700)

\* C17: on an input of 16 bytes Unmarshal into a Header fails exactly when
\* UnmarshalHeader fails, and when they succeed the headers are equal.
C17_HeaderDecodersAgree ==
  (codecPc = "Unmarshal_done" /\ Len(codecArg) = 16) =>
    /\ (codecRet.err = "nil") <=> (UnmarshalHeader(codecArg).err = "nil")
    /\ codecRet.err = "nil" => codecRet.hdr = UnmarshalHeader(codecArg).hdr

\* Unmarshal has accepted a header, and has rejected one for its complement
C17_UnmarshalAccepted ==
  /\ codecPc = "Unmarshal_done" /\ Len(codecArg) = 16 /\ codecRet.err = "nil"
  /\ codecRet.hdr.Length = LE32(3700)

\* C18: UnmarhalVideoData succeeds exactly when the payload has at least 20
\* bytes and 20 plus the signed length field at offset 12 bytes in all, so
\* never with a negative length field; it then returns the five signed
\* words of the prefix and the trailing bytes as Data.
C18_VideoDataDecoded ==
  codecPc = "UnmarhalVideoData_done" =>
    /\ IF Len(codecArg) >= 20 /\ Len(codecArg) = 20 + I32(SubSeq(codecArg, 13, 16))
         THEN /\ codecRet.err = "nil"
              /\ codecRet.video.Width = I32(SubSeq(codecArg, 1, 4))
              /\ codecRet.video.Height = I32(SubSeq(codecArg, 5, 8))
              /\ codecRet.video.Flags = I32(SubSeq(codecArg, 9, 12))
              /\ codecRet.video.Length = I32(SubSeq(codecArg, 13, 16))
              /\ codecRet.video.Unknown2 = I32(SubSeq(codecArg, 17, 20))
              /\ codecRet.video.Data = SubSeq(codecArg, 21, Len(codecArg))
              /\ Len(codecRet.video.Data) = codecRet.video.Length
         ELSE codecRet.err # "nil"
    /\ (Len(codecArg) >= 16 /\ codecArg[16] >= 128) => codecRet.err # "nil"

\* a payload of 22 bytes with a negative width has been decoded
C18_TwoDataBytesDecoded ==
  /\ codecPc = "UnmarhalVideoData_done" /\ codecRet.err = "nil"
  /\ codecRet.video.Length = 2 /\ codecRet.video.Data = << 1, 2 >>
  /\ codecRet.video.Width = -1

\* C19: UnmarshalAudioData fails on fewer than 12 bytes; otherwise
\* DecodeType, Volume and AudioType come from the prefix, a tail of one byte
\* sets only Command, a tail of four bytes sets only VolumeDuration, and any
\* other tail, the empty one included, sets only Data.
C19_AudioTailDispatch ==
  codecPc = "UnmarshalAudioData_done" =>
    IF Len(codecArg) < 12 THEN codecRet.err # "nil"
    ELSE LET n == Len(codecArg) - 12
             audio == codecRet.audio
         IN  /\ codecRet.err = "nil"
             /\ audio.DecodeType = SubSeq(codecArg, 1, 4)
             /\ audio.Volume = SubSeq(codecArg, 5, 8)
             /\ audio.AudioType = I32(SubSeq(codecArg, 9, 12))
             /\ audio.Command = (IF n = 1 THEN codecArg[13] ELSE 0)
             /\ audio.VolumeDuration = (IF n = 4 THEN I32(SubSeq(codecArg, 13, 16)) ELSE 0)
             /\ audio.Data = (IF n \in {1, 4} THEN <<>> ELSE SubSeq(codecArg, 13, Len(codecArg)))

\* a tail of four bytes has been decoded as a negative volume duration
C19_VolumeDurationDecoded ==
  /\ codecPc = "UnmarshalAudioData_done" /\ codecRet.err = "nil"
  /\ Len(codecArg) = 16
  /\ codecRet.audio.VolumeDuration = -1 /\ codecRet.audio.Data = <<>>

\* the two tasks of the attachment have returned and have been joined
TasksJoined == sndPc = "idle" /\ rcvPc = "idle" /\ endpointWg = 0

\* C20: teardown on Stop is ordered. The interface is released only after
\* the exit signal is closed and the Sender and the Receiver have returned,
\* while the device, the queue and the context are still open; the device
\* handle is closed only after the interface is released; the outbound
\* queue is closed only after the Sender has joined and the Supervisor has
\* returned; and the USB context is closed only after all of these.
C20_TeardownOrder ==
  /\ [](intf = "released" => TasksJoined)
  /\ [](product = "closed" => intf = "released")
  /\ [](outData = "closed" => (TasksJoined /\ supPc = "idle" /\ waitGroup = 0
                               /\ product # "open" /\ intf # "claimed" /\ usbCtx = "open"))
  /\ [](usbCtx = "closed" => (TasksJoined /\ supPc = "idle" /\ product # "open"
                              /\ intf # "claimed" /\ outData = "nil"))
  /\ [][ /\ (intf = "claimed" /\ intf' = "released") =>
              (exitChan = "closed" /\ ctlPc = "Stop_Wait" /\ TasksJoined
               /\ product = "open" /\ outData = "open" /\ usbCtx = "open")
         /\ (product = "open" /\ product' = "closed") =>
              (exitChan = "closed" /\ ctlPc = "Stop_Wait" /\ intf = "released"
               /\ outData = "open" /\ usbCtx = "open")
         /\ (outData = "open" /\ outData' = "closed") =>
              (ctlPc = "Stop_close" /\ TasksJoined /\ supPc = "idle"
               /\ product # "open" /\ intf # "claimed" /\ usbCtx = "open")
         /\ (usbCtx = "open" /\ usbCtx' = "closed") =>
              (ctlPc = "Stop_clear" /\ outData = "closed" /\ TasksJoined /\ supPc = "idle"
               /\ product # "open" /\ intf # "claimed") ]_vars

\* Stop has returned after a session in which a device was attached and
\* written to: interface, device, queue and context have all been released
C20_TornDownAfterAttachment ==
  /\ Alive /\ ctlPc = "idle" /\ lastCall = "Stop"
  /\ intf = "released" /\ product = "closed" /\ outData = "nil" /\ usbCtx = "closed"
  /\ sent # <<>>

\* ------------------------------------------------------- acquisition failure
\* the Supervisor is acquiring the interface or an endpoint of a device it
\* has opened
Acquiring == supPc \in {"DefaultInterface", "OutEndpoint", "InEndpoint"}

\* the step of the Supervisor in which that acquisition returns an error: it
\* takes a step and does not go on to the next acquisition or to the tasks
AcquisitionFails ==
  /\ Alive /\ Acquiring
  /\ supPc' # supPc \/ fatal' # fatal
  /\ ~ \/ supPc = "DefaultInterface" /\ supPc' = "OutEndpoint"
       \/ supPc = "OutEndpoint" /\ supPc' = "InEndpoint"
       \/ supPc = "InEndpoint" /\ supPc' = "spawn"

\* C21: when acquiring the interface or an endpoint of a found device fails,
\* the Supervisor closes the device handle and is back in the reconnect
\* loop, and the link is still started.
C21_AcquisitionFailureRetries ==
  [][AcquisitionFails =>
       (fatal' = "none" /\ product' = "closed" /\ supPc' = "select" /\ exitChan' # "nil")]_vars

\* ------------------------------------------------------ order of callbacks
\* C22: within an attachment, any call of on_video, on_audio, on_data or
\* on_error comes after the call of on_ready_send of that attachment.
C22_ReadyBeforeReceiverCallbacks ==
  [][cbNow'.cb \in {"onVideo", "onAudio", "onData", "onError"} => readyCount >= 1]_vars

\* ------------------------------------------------------ SendMessage and Stop
\* C23: no SendMessage sends on an outbound queue that Stop has closed.
C23_NoSendOnClosedQueue == fatal # "send on closed channel"

\* ------------------------------------------- the application's on_ready_send
\* The application's seven session-init messages, scaled with the capacity
\* of the queue: they fit an empty queue.
InitMsgs == 1

\* the i-th message of initCarplay
InitMessage(i) == Msg("SendFile", Rep(i, 1))

\* l.onReadySend() with the callback startCarPlay installs: the Sender enters
\* initCarplay
startCarPlay_onReadySend ==
  /\ Alive /\ sndPc = "onReadySend"
  /\ cbNow' = Call("onReadySend", cbs.onReadySend)
  /\ outNow' = <<>> /\ rxNow' = <<>>
  /\ readyCount' = readyCount + 1
  /\ sndPc' = "initCarplay" /\ initPc' = 0
  /\ UNCHANGED << appVars, linkVars, supVars, buff, remaining, rcvVars, prodVars, envVars,
                  missed, sent, win, timedOut, emptyPolls, hbTick, fatal >>
  /\ UNCHANGED codecVars

\* usbLink.SendMessage(..) in initCarplay, on the Sender's goroutine: the
\* send completes when the queue has room and blocks while it has none
initCarplay_SendMessage ==
  /\ Alive /\ sndPc = "initCarplay" /\ initPc < InitMsgs
  /\ outData = "open" /\ Len(queue) < QueueCap
  /\ queue' = Append(queue, InitMessage(initPc + 1))
  /\ enq' = Append(enq, InitMessage(initPc + 1))
  /\ initPc' = initPc + 1
  /\ Quiet
  /\ UNCHANGED << appVars, exitChan, outData, waitGroup, usbCtx, cbs, supVars, sndPc, buff,
                  remaining, rcvVars, prodPc, pending, envVars, histVars, fatal >>
  /\ UNCHANGED codecVars

\* initCarplay and the callback return; buff is allocated
initCarplay_return ==
  /\ Alive /\ sndPc = "initCarplay" /\ initPc = InitMsgs
  /\ sndPc' = "select" /\ buff' = <<>>
  /\ Quiet
  /\ UNCHANGED << appVars, linkVars, supVars, remaining, initPc, rcvVars, prodVars, envVars,
                  histVars, fatal >>
  /\ UNCHANGED codecVars

\* The application of main.go: it starts the link, its threads send touches
\* from then on, a device is found and attached, and the Sender runs the
\* application's on_ready_send and then serves the queue.
ReadyNext ==
  \/ nCalls < 1 /\ Start(AllCallbacks(1))
  \/ /\ lastCall = "Start" /\ Len(enq) + Len(pending) < MaxMsgs + InitMsgs
     /\ SendMessage(Msg("Touch", << Len(enq) + 1 >>))
  \/ SendMessage_resume
  \/ \E b \in 0..1 : BusChange(b)
  \/ loop_timer
  \/ loop_DefaultInterface
  \/ loop_OutEndpoint
  \/ loop_InEndpoint
  \/ loop_spawn
  \/ startCarPlay_onReadySend
  \/ initCarplay_SendMessage
  \/ initCarplay_return
  \/ outEndpointProcess_heartbeat
  \/ outEndpointProcess_dequeue
  \/ outEndpointProcess_expired
  \/ outEndpointProcess_poll
  \/ outEndpointProcess_default

\* every goroutine of the program that can take a step does
ReadyFairness ==
  /\ WF_vars(loop_timer) /\ WF_vars(loop_DefaultInterface) /\ WF_vars(loop_OutEndpoint)
  /\ WF_vars(loop_InEndpoint) /\ WF_vars(loop_spawn)
  /\ WF_vars(startCarPlay_onReadySend)
  /\ WF_vars(initCarplay_SendMessage) /\ WF_vars(initCarplay_return)
  /\ WF_vars(outEndpointProcess_dequeue) /\ WF_vars(outEndpointProcess_expired)
  /\ WF_vars(outEndpointProcess_poll) /\ WF_vars(outEndpointProcess_default)
  /\ WF_vars(SendMessage_resume)

ReadySpec == Init /\ [][ReadyNext]_vars /\ ReadyFairness

\* C24: the on_ready_send callback that the Sender has entered returns, so
\* the Sender reaches its dequeue loop, unless the process ends.
C24_OnReadySendReturns == (sndPc = "initCarplay") ~> (sndPc = "select" \/ ~Alive)

\* ---------------------------------------------------------------- discovery
\* the most matching devices on the bus at once
MaxDevices == 3

\* the elements of a sequence
Range(s) == { s[i] : i \in DOMAIN s }

\* What Context.OpenDevices of gousb can return: the handles it has opened,
\* each a different one, and nil or the last error of the enumeration; the
\* handles opened before and after a failed open are returned with the error.
OpenDevicesResults ==
  { [devs |-> d, err |-> e] :
      d \in { s \in UNION { [1..n -> 1..MaxDevices] : n \in 0..MaxDevices } :
                \A i, j \in DOMAIN s : s[i] = s[j] => i = j },
      e \in { "nil", "libusb" } }

\* the waits Connect allows itself before it gives up (10 in the code)
MaxWaits == 2

\* What the USB side does during one call of Connect: how many times
\* OpenDeviceWithVIDPID finds no device before it returns a device or an
\* error, and whether the interface and each endpoint can be acquired.
ConnectInputs ==
  [ misses : 0..(MaxWaits + 1), open : { "device", "error" },
    intf : BOOLEAN, epOut : BOOLEAN, epIn : BOOLEAN ]

\* One call of usbConnect on what OpenDevices returned, or one call of
\* Connect and of the closer it returns.
DiscoveryInit ==
  /\ ProgInit /\ bus = 0
  /\ codecRet = <<>>
  /\ \/ codecPc = "usbConnect" /\ codecArg \in OpenDevicesResults
     \/ codecPc = "Connect" /\ codecArg \in ConnectInputs

usbConnect_call ==
  /\ codecPc = "usbConnect"
  /\ codecRet' = usbConnect(codecArg)
  /\ codecPc' = "usbConnect_done"
  /\ UNCHANGED << progVars, codecArg >>

\* Connect: ctx := gousb.NewContext(), its release is the first clean task
Connect_NewContext ==
  /\ codecPc = "Connect"
  /\ codecRet' = [waitCount |-> MaxWaits, waits |-> 0, cleanTask |-> << "ctx" >>,
                  closeTask |-> <<>>, acquired |-> << "ctx" >>, released |-> <<>>,
                  err |-> "nil"]
  /\ codecPc' = "OpenDeviceWithVIDPID"
  /\ UNCHANGED << progVars, codecArg >>

\* one turn of the loop: an error returns, no device counts down and
\* sleeps or gives up, a device is kept and its Close becomes a clean task
Connect_OpenDeviceWithVIDPID ==
  /\ codecPc = "OpenDeviceWithVIDPID"
  /\ IF codecRet.waits < codecArg.misses
       THEN IF codecRet.waitCount - 1 < 0
              THEN /\ codecRet' = [codecRet EXCEPT !.waitCount = @ - 1,
                                                   !.err = "Could not find a device"]
                   /\ codecPc' = "defer"
              ELSE /\ codecRet' = [codecRet EXCEPT !.waitCount = @ - 1, !.waits = @ + 1]
                   /\ codecPc' = "OpenDeviceWithVIDPID"
       ELSE IF codecArg.open = "error"
              THEN /\ codecRet' = [codecRet EXCEPT !.err = "open"]
                   /\ codecPc' = "defer"
              ELSE /\ codecRet' = [codecRet EXCEPT !.cleanTask = Append(@, "dev"),
                                                   !.acquired = Append(@, "dev")]
                   /\ codecPc' = "DefaultInterface"
  /\ UNCHANGED << progVars, codecArg >>

\* dev.DefaultInterface(): done becomes a clean task
Connect_DefaultInterface ==
  /\ codecPc = "DefaultInterface"
  /\ IF codecArg.intf
       THEN /\ codecRet' = [codecRet EXCEPT !.cleanTask = Append(@, "intf"),
                                            !.acquired = Append(@, "intf")]
            /\ codecPc' = "OutEndpoint"
       ELSE /\ codecRet' = [codecRet EXCEPT !.err = "DefaultInterface"]
            /\ codecPc' = "defer"
  /\ UNCHANGED << progVars, codecArg >>

\* intf.OutEndpoint(1)
Connect_OutEndpoint ==
  /\ codecPc = "OutEndpoint"
  /\ IF codecArg.epOut
       THEN codecPc' = "InEndpoint" /\ UNCHANGED codecRet
       ELSE codecRet' = [codecRet EXCEPT !.err = "OutEndpoint"] /\ codecPc' = "defer"
  /\ UNCHANGED << progVars, codecArg >>

\* intf.InEndpoint(1); on success the clean tasks become the closer's tasks
Connect_InEndpoint ==
  /\ codecPc = "InEndpoint"
  /\ IF codecArg.epIn
       THEN codecRet' = [codecRet EXCEPT !.closeTask = codecRet.cleanTask, !.cleanTask = <<>>]
       ELSE codecRet' = [codecRet EXCEPT !.err = "InEndpoint"]
  /\ codecPc' = "defer"
  /\ UNCHANGED << progVars, codecArg >>

\* the deferred function runs the clean tasks in order; Connect returns
Connect_defer ==
  /\ codecPc = "defer"
  /\ codecRet' = [codecRet EXCEPT !.released = @ \o codecRet.cleanTask]
  /\ codecPc' = IF codecRet.err = "nil" THEN "connected" ELSE "failed"
  /\ UNCHANGED << progVars, codecArg >>

\* the caller calls the closer Connect returned: it runs its tasks in order
Connect_closer ==
  /\ codecPc = "connected"
  /\ codecRet' = [codecRet EXCEPT !.released = @ \o codecRet.closeTask]
  /\ codecPc' = "closed"
  /\ UNCHANGED << progVars, codecArg >>

DiscoveryNext ==
  \/ usbConnect_call
  \/ Connect_NewContext
  \/ Connect_OpenDeviceWithVIDPID
  \/ Connect_DefaultInterface
  \/ Connect_OutEndpoint
  \/ Connect_InEndpoint
  \/ Connect_defer
  \/ Connect_closer

DiscoverySpec == DiscoveryInit /\ [][DiscoveryNext]_vars

\* C25: usbConnect leaves at most one of the opened handles open; with no
\* error it returns the first handle and closes each other one once, or
\* returns no device and no error when none was opened; with an error it
\* returns the error and no device.
C25_AtMostOneHandleOpen ==
  codecPc = "usbConnect_done" =>
    /\ Cardinality(Range(codecArg.devs) \ Range(codecRet.closed)) <= 1
    /\ \A i, j \in DOMAIN codecRet.closed : codecRet.closed[i] = codecRet.closed[j] => i = j
    /\ IF codecArg.err # "nil"
         THEN codecRet.err = codecArg.err /\ codecRet.device = 0
         ELSE /\ codecRet.err = "nil"
              /\ IF codecArg.devs = <<>>
                   THEN codecRet.device = 0 /\ codecRet.closed = <<>>
                   ELSE /\ codecRet.device = codecArg.devs[1]
                        /\ Range(codecRet.closed) = Range(codecArg.devs) \ { codecRet.device }

\* C26: when Connect fails it has released each resource it acquired exactly
\* once, and it gives up on a missing device after MaxWaits waits; when it
\* succeeds nothing is released until the closer is called, and the closer
\* releases the interface, then the device handle, then the USB context.
C26_ConnectReleasesInOrder ==
  /\ codecPc = "failed" =>
       /\ Range(codecRet.released) = Range(codecRet.acquired)
       /\ Len(codecRet.released) = Len(codecRet.acquired)
       /\ codecRet.err = "Could not find a device" => codecRet.waits = MaxWaits
  /\ codecPc = "connected" => codecRet.released = <<>>
  /\ codecPc = "closed" => codecRet.released = << "intf", "dev", "ctx" >>

====
